---- MODULE Spec2Model ----
(***************************************************************************)
(* A model of rancher-cni-bridge's utils.go: the bridge ensure-or-reuse    *)
(* logic, the bridge IP computation and assignment, the application of an  *)
(* IPAM result to a container interface, the interface probe and the MAC   *)
(* setter, over a small model of the kernel's link, address and route      *)
(* tables.                                                                 *)
(***************************************************************************)
EXTENDS Integers, Sequences, FiniteSets, TLC

VARIABLES
    links,    \* the kernel's link table: a set of link records, all namespaces
    addrs,    \* the kernel's IPv4 addresses: a set of [dev, ipn]
    routes,   \* the kernel's route tables: a set of [ns, dst, gw, dev]
    ports,    \* the kernel's bridge ports: a set of [dev, master, hairpin]
    ebCalls,  \* per bridge name, how many ensureBridge calls have been made
    ebClean,  \* per bridge name, no kernel fault hit an ensureBridge call so far
    initKind, \* per bridge name, the kind of device holding it at the start
    proc,     \* the invocations in progress: where each is, and its locals
    last      \* the last call: its operation, arguments and what it returned

vars == <<links, addrs, routes, ports, ebCalls, ebClean, initKind, proc, last>>

----------------------------------------------------------------------------
(* Bounds of the model.                                                    *)

\* ensureBridge calls made per bridge name
MaxCalls == 3
\* routes in one IPAM result
MaxRoutes == 2

----------------------------------------------------------------------------
(* Addresses, networks and their text forms.                               *)
(* An IPv4 address is its four octets; a network (net.IPNet) is an address *)
(* and a prefix length; a text is a sequence of tokens: a number, Dot,     *)
(* Slash or Junk (any other character).                                    *)

Dot == -1
Slash == -2
Junk == -3

NilIP == <<>>
NilNet == [IP |-> NilIP, Len |-> -1]

Pow2(n) == IF n = 0 THEN 1 ELSE IF n = 1 THEN 2 ELSE IF n = 2 THEN 4
           ELSE IF n = 3 THEN 8 ELSE IF n = 4 THEN 16 ELSE IF n = 5 THEN 32
           ELSE IF n = 6 THEN 64 ELSE IF n = 7 THEN 128 ELSE 256

\* how many of octet i's bits a mask of the given prefix length keeps
MaskBits(len, i) ==
    LET b == len - 8 * (i - 1)
    IN  IF b < 0 THEN 0 ELSE IF b > 8 THEN 8 ELSE b

\* net.IP.Mask: each octet and-ed with the mask's octet
MaskIP(ip, len) ==
    [i \in 1..4 |-> ip[i] - (ip[i] % Pow2(8 - MaskBits(len, i)))]

\* net.IPNet.Contains: the address and the network agree under the mask
Contains(ipn, ip) ==
    /\ ip # NilIP
    /\ MaskIP(ipn.IP, ipn.Len) = MaskIP(ip, ipn.Len)

\* ip.NextIP: the address as one 32-bit number, plus one
NextIP(ip) ==
    IF ip[4] < 255 THEN <<ip[1], ip[2], ip[3], ip[4] + 1>>
    ELSE IF ip[3] < 255 THEN <<ip[1], ip[2], ip[3] + 1, 0>>
    ELSE IF ip[2] < 255 THEN <<ip[1], ip[2] + 1, 0, 0>>
    ELSE <<(ip[1] + 1) % 256, 0, 0, 0>>

\* net.IP.String of an IPv4 address: dotted decimal
IPString(ip) == <<ip[1], Dot, ip[2], Dot, ip[3], Dot, ip[4]>>

\* net.IPNet.String: the address, a slash, the prefix length
IPNetString(ipn) == IPString(ipn.IP) \o <<Slash, ipn.Len>>

\* net.ParseIP: four decimal octets separated by dots, or nil
ParseIP(t) ==
    IF /\ Len(t) = 7
       /\ \A i \in {2, 4, 6} : t[i] = Dot
       /\ \A i \in {1, 3, 5, 7} : t[i] \in 0..255
    THEN <<t[1], t[3], t[5], t[7]>>
    ELSE NilIP

\* net.ParseCIDR: address/length; returns the address as written and the
\* network with the host bits cleared
ParseCIDR(t) ==
    IF /\ Len(t) = 9
       /\ t[8] = Slash
       /\ t[9] \in 0..32
       /\ ParseIP(SubSeq(t, 1, 7)) # NilIP
    THEN LET ip == ParseIP(SubSeq(t, 1, 7))
         IN  [err |-> "nil", ip |-> ip,
              ipn |-> [IP |-> MaskIP(ip, t[9]), Len |-> t[9]]]
    ELSE [err |-> "invalid CIDR address", ip |-> NilIP, ipn |-> NilNet]

----------------------------------------------------------------------------
(* calcGatewayIP and calculateBridgeIP.                                    *)

calcGatewayIP(ipn) == NextIP(MaskIP(ipn.IP, ipn.Len))

\* calculateBridgeIP keeping the prefix length a CIDR-form BrIP carries
calculateBridgeIP_CidrPrefix(n) ==
    IF n.BrSubnet = <<>>
    THEN [ipn |-> NilNet, err |-> "mandatory bridgeSubnet not specified in config"]
    ELSE LET sub == ParseCIDR(n.BrSubnet) IN
    IF sub.err # "nil"
    THEN [ipn |-> NilNet, err |-> "Invalid bridgeSubnet specified"]
    ELSE IF n.BrIP # <<>>
    THEN LET cidr == ParseCIDR(n.BrIP)
             ip == IF ParseIP(n.BrIP) # NilIP THEN ParseIP(n.BrIP) ELSE cidr.ip
         IN  IF ParseIP(n.BrIP) = NilIP /\ cidr.err # "nil"
             THEN [ipn |-> NilNet, err |-> "invalid bridgeIP specified in config"]
             ELSE IF ~Contains(sub.ipn, ip)
             THEN [ipn |-> NilNet, err |-> "bridgeIP is not in bridgeSubnet"]
             ELSE [ipn |-> [IP |-> ip,
                            Len |-> IF ParseIP(n.BrIP) = NilIP
                                    THEN cidr.ipn.Len ELSE sub.ipn.Len],
                   err |-> "nil"]
    ELSE LET b == sub.ipn.IP
         IN  [ipn |-> [IP |-> <<b[1], b[2], b[3], (b[4] + 1) % 256>>,
                       Len |-> sub.ipn.Len],
              err |-> "nil"]

\* calculateBridgeIP without the check that BrIP lies in BrSubnet
calculateBridgeIP_NoContains(n) ==
    IF n.BrSubnet = <<>>
    THEN [ipn |-> NilNet, err |-> "mandatory bridgeSubnet not specified in config"]
    ELSE LET sub == ParseCIDR(n.BrSubnet) IN
    IF sub.err # "nil"
    THEN [ipn |-> NilNet, err |-> "Invalid bridgeSubnet specified"]
    ELSE IF n.BrIP # <<>>
    THEN LET cidr == ParseCIDR(n.BrIP)
             ip == IF ParseIP(n.BrIP) # NilIP THEN ParseIP(n.BrIP) ELSE cidr.ip
         IN  IF ParseIP(n.BrIP) = NilIP /\ cidr.err # "nil"
             THEN [ipn |-> NilNet, err |-> "invalid bridgeIP specified in config"]
             ELSE [ipn |-> [IP |-> ip, Len |-> sub.ipn.Len], err |-> "nil"]
    ELSE LET b == sub.ipn.IP
         IN  [ipn |-> [IP |-> <<b[1], b[2], b[3], (b[4] + 1) % 256>>,
                       Len |-> sub.ipn.Len],
              err |-> "nil"]

\* lines 126-170; the default branch adds one to the last octet as a byte
calculateBridgeIP(n) ==
    IF n.BrSubnet = <<>>
    THEN [ipn |-> NilNet, err |-> "mandatory bridgeSubnet not specified in config"]
    ELSE LET sub == ParseCIDR(n.BrSubnet) IN
    IF sub.err # "nil"
    THEN [ipn |-> NilNet, err |-> "Invalid bridgeSubnet specified"]
    ELSE IF n.BrIP # <<>>
    THEN LET cidr == ParseCIDR(n.BrIP)
             ip == IF ParseIP(n.BrIP) # NilIP THEN ParseIP(n.BrIP) ELSE cidr.ip
         IN  IF ParseIP(n.BrIP) = NilIP /\ cidr.err # "nil"
             THEN [ipn |-> NilNet, err |-> "invalid bridgeIP specified in config"]
             ELSE IF ~Contains(sub.ipn, ip)
             THEN [ipn |-> NilNet, err |-> "bridgeIP is not in bridgeSubnet"]
             ELSE [ipn |-> [IP |-> ip, Len |-> sub.ipn.Len], err |-> "nil"]
    ELSE LET b == sub.ipn.IP
         IN  [ipn |-> [IP |-> <<b[1], b[2], b[3], (b[4] + 1) % 256>>,
                       Len |-> sub.ipn.Len],
              err |-> "nil"]

----------------------------------------------------------------------------
(* The kernel's tables, as the netlink calls of utils.go see them.         *)
(* A link is [index, ns, name, kind, up, mtu, hw]; index 0 is no link.     *)

BrNames == {"cni0"}
MTUs == {1500, 9000}
HostNS == "host"

NilHw == <<>>
\* the hardware address the kernel gives a new link
KernelHw == <<2, 0, 0, 0, 0, 1>>

NoLink == [index |-> 0, ns |-> "", name |-> "", kind |-> "", up |-> FALSE,
           mtu |-> 0, hw |-> NilHw]

NextIndex(ls) ==
    IF ls = {} THEN 1
    ELSE (CHOOSE i \in {l.index : l \in ls} : \A l \in ls : l.index <= i) + 1

\* netlink.LinkByName in namespace ns
LinkByName(ls, ns, name) ==
    IF \E l \in ls : l.ns = ns /\ l.name = name
    THEN [err |-> "nil", link |-> CHOOSE l \in ls : l.ns = ns /\ l.name = name]
    ELSE [err |-> "Link not found", link |-> NoLink]

\* netlink.LinkAdd: the kernel refuses a name that is taken
LinkAdd(ls, ns, name, kind, mtu) ==
    IF \E l \in ls : l.ns = ns /\ l.name = name
    THEN [err |-> "EEXIST", links |-> ls, index |-> 0]
    ELSE [err |-> "nil", index |-> NextIndex(ls),
          links |-> ls \cup {[index |-> NextIndex(ls), ns |-> ns, name |-> name,
                              kind |-> kind, up |-> FALSE, mtu |-> mtu,
                              hw |-> KernelHw]}]

\* netlink.LinkSetUp on the link with the given index
LinkSetUp(ls, index) ==
    {IF l.index = index THEN [l EXCEPT !.up = TRUE] ELSE l : l \in ls}

\* netlink.LinkSetHardwareAddr
LinkSetHardwareAddr(ls, index, hw) ==
    {IF l.index = index THEN [l EXCEPT !.hw = hw] ELSE l : l \in ls}

\* netlink.AddrList(link, AF_INET)
AddrList(as, index) == {a.ipn : a \in {x \in as : x.dev = index}}

\* netlink.AddrAdd: the kernel refuses an address the link already has
AddrAdd(as, index, ipn) ==
    IF ipn \in AddrList(as, index)
    THEN [err |-> "EEXIST", addrs |-> as]
    ELSE [err |-> "nil", addrs |-> as \cup {[dev |-> index, ipn |-> ipn]}]

\* netlink.RouteAdd as ip.AddRoute calls it: one route per destination in a
\* namespace's table, a second one is refused
RouteAdd(rs, ns, dst, gw, dev) ==
    IF \E r \in rs : r.ns = ns /\ r.dst = dst
    THEN [err |-> "EEXIST", routes |-> rs]
    ELSE [err |-> "nil",
          routes |-> rs \cup {[ns |-> ns, dst |-> dst, gw |-> gw, dev |-> dev]}]

\* syscall.Errno.Error
ErrnoString(e) ==
    IF e = "EEXIST" THEN "file exists"
    ELSE IF e = "EPERM" THEN "operation not permitted"
    ELSE IF e = "ENETUNREACH" THEN "network is unreachable"
    ELSE e

\* os.IsExist
IsExist(e) == e \in {"EEXIST", "ENOTEMPTY"}

----------------------------------------------------------------------------
(* bridgeByName and ensureBridge (lines 42-84).  The argument f names the  *)
(* kernel call of this invocation that fails for a reason outside the      *)
(* model (EPERM), or is "none".                                            *)

\* bridgeByName without the check of the link's kind
bridgeByName_AnyKind(ls, name, f) ==
    LET r == IF f = "LinkByName"
             THEN [err |-> "Link not found", link |-> NoLink]
             ELSE LinkByName(ls, HostNS, name)
    IN  IF r.err # "nil"
        THEN [br |-> 0, err |-> "could not lookup"]
        ELSE [br |-> r.link.index, err |-> "nil"]

bridgeByName(ls, name, f) ==
    LET r == IF f = "LinkByName"
             THEN [err |-> "Link not found", link |-> NoLink]
             ELSE LinkByName(ls, HostNS, name)
    IN  IF r.err # "nil"
        THEN [br |-> 0, err |-> "could not lookup"]
        ELSE IF r.link.kind # "bridge"
        THEN [br |-> 0, err |-> "already exists but is not a bridge"]
        ELSE [br |-> r.link.index, err |-> "nil"]

\* ensureBridge treating "already exists" like any other LinkAdd failure
ensureBridge_NoReuse(ls, brName, mtu, f) ==
    LET add == IF f = "LinkAdd"
               THEN [err |-> "EPERM", links |-> ls, index |-> 0]
               ELSE LinkAdd(ls, HostNS, brName, "bridge", mtu)
    IN  IF add.err # "nil"
        THEN [br |-> 0, err |-> "could not add", path |-> "none", links |-> ls]
        ELSE IF f = "LinkSetUp"
        THEN [br |-> 0, err |-> "EPERM", path |-> "created", links |-> add.links]
        ELSE [br |-> add.index, err |-> "nil", path |-> "created",
              links |-> LinkSetUp(add.links, add.index)]

ensureBridge(ls, brName, mtu, f) ==
    LET add == IF f = "LinkAdd"
               THEN [err |-> "EPERM", links |-> ls, index |-> 0]
               ELSE LinkAdd(ls, HostNS, brName, "bridge", mtu)
        byName == bridgeByName(ls, brName, f)
        br == IF add.err = "nil" THEN add.index ELSE byName.br
        path == IF add.err = "nil" THEN "created" ELSE "exists"
    IN  IF add.err # "nil" /\ add.err # "EEXIST"
        THEN [br |-> 0, err |-> "could not add", path |-> "none", links |-> ls]
        ELSE IF add.err = "EEXIST" /\ byName.err # "nil"
        THEN [br |-> 0, err |-> byName.err, path |-> "exists", links |-> ls]
        ELSE IF f = "LinkSetUp"
        THEN [br |-> 0, err |-> "EPERM", path |-> path, links |-> add.links]
        ELSE [br |-> br, err |-> "nil", path |-> path,
              links |-> LinkSetUp(add.links, br)]

----------------------------------------------------------------------------
(* ensureBridgeAddr (lines 17-40) and setBridgeIP (lines 172-208).         *)

\* ensureBridgeAddr without the "different address" return
ensureBridgeAddr_NoConflict(as, br, ipn, f) ==
    LET list == IF f = "AddrListENOENT" THEN {} ELSE AddrList(as, br)
        add == IF f = "AddrAdd" THEN [err |-> "EPERM", addrs |-> as]
               ELSE AddrAdd(as, br, ipn)
    IN  IF f = "AddrList"
        THEN [err |-> "could not list", addrs |-> as]
        ELSE IF \E a \in list : IPNetString(a) = IPNetString(ipn)
        THEN [err |-> "nil", addrs |-> as]
        ELSE IF add.err # "nil"
        THEN [err |-> "could not add IP address", addrs |-> as]
        ELSE [err |-> "nil", addrs |-> add.addrs]

ensureBridgeAddr(as, br, ipn, f) ==
    LET list == IF f = "AddrListENOENT" THEN {} ELSE AddrList(as, br)
        add == IF f = "AddrAdd" THEN [err |-> "EPERM", addrs |-> as]
               ELSE AddrAdd(as, br, ipn)
    IN  IF f = "AddrList"
        THEN [err |-> "could not list", addrs |-> as]
        ELSE IF list # {}
        THEN IF \E a \in list : IPNetString(a) = IPNetString(ipn)
             THEN [err |-> "nil", addrs |-> as]
             ELSE [err |-> "already has an IP address different", addrs |-> as]
        ELSE IF add.err # "nil"
        THEN [err |-> "could not add IP address", addrs |-> as]
        ELSE [err |-> "nil", addrs |-> add.addrs]

setBridgeIP(ls, as, n, f) ==
    LET lk == LinkByName(ls, HostNS, n.BrName)
        calc == calculateBridgeIP(n)
        list == IF f = "AddrListENOENT" THEN {} ELSE AddrList(as, lk.link.index)
        add == IF f = "AddrAdd" THEN [err |-> "EPERM", addrs |-> as]
               ELSE AddrAdd(as, lk.link.index, calc.ipn)
    IN  IF n.BrSubnet = <<>>
        THEN [err |-> "mandatory bridgeSubnet not specified in config", addrs |-> as]
        ELSE IF lk.err # "nil"
        THEN [err |-> "failed to lookup", addrs |-> as]
        ELSE IF calc.err # "nil"
        THEN [err |-> "failed to calculate bridge IP", addrs |-> as]
        ELSE IF f = "AddrList"
        THEN [err |-> "could not get list of IP addresses", addrs |-> as]
        ELSE IF \E a \in list : IPNetString(a) = IPNetString(calc.ipn)
        THEN [err |-> "nil", addrs |-> as]
        ELSE IF add.err # "nil"
        THEN [err |-> "failed to add IP addr", addrs |-> as]
        ELSE [err |-> "nil", addrs |-> add.addrs]

\* setupBridge with the disabled call of setBridgeIP (lines 217-221) enabled
setupBridge_SetsIP(ls, as, n, f) ==
    LET r == ensureBridge(ls, n.BrName, n.MTU, f)
        ip == setBridgeIP(r.links, as, n, "none")
    IN  IF r.err # "nil"
        THEN [br |-> r.br, err |-> "failed to create bridge", path |-> r.path,
              links |-> r.links, addrs |-> as]
        ELSE IF ip.err # "nil"
        THEN [br |-> 0, err |-> "failed to set bridge IP", path |-> r.path,
              links |-> r.links, addrs |-> ip.addrs]
        ELSE [br |-> r.br, err |-> "nil", path |-> r.path,
              links |-> r.links, addrs |-> ip.addrs]

\* setupBridge (lines 210-224): ensureBridge and nothing else; the call of
\* setBridgeIP is commented out
setupBridge(ls, as, n, f) ==
    LET r == ensureBridge(ls, n.BrName, n.MTU, f)
    IN  IF r.err # "nil"
        THEN [br |-> r.br, err |-> "failed to create bridge", path |-> r.path,
              links |-> r.links, addrs |-> as]
        ELSE [br |-> r.br, err |-> "nil", path |-> r.path,
              links |-> r.links, addrs |-> as]

----------------------------------------------------------------------------
(* configureInterface (lines 228-262).  f names the kernel call that fails *)
(* for an outside reason, rf the route (by position) whose install fails   *)
(* with ENETUNREACH, 0 for none.                                           *)

\* the gateway of the i-th route: its own, else the IPAM default (249-252)
RouteGW(res, i) ==
    IF res.Routes[i].GW = NilIP THEN res.Gateway ELSE res.Routes[i].GW

\* the route loop without the fall-back to the IPAM gateway
RECURSIVE AddRoutes_OwnGwOnly(_, _, _, _, _, _)
AddRoutes_OwnGwOnly(rs, ns, dev, res, i, rf) ==
    IF i > Len(res.Routes)
    THEN [err |-> "nil", routes |-> rs]
    ELSE LET add == IF rf = i THEN [err |-> "ENETUNREACH", routes |-> rs]
                    ELSE RouteAdd(rs, ns, res.Routes[i].Dst, res.Routes[i].GW, dev)
         IN  IF add.err # "nil" /\ ~IsExist(add.err)
             THEN [err |-> "failed to add route", routes |-> rs]
             ELSE AddRoutes_OwnGwOnly(add.routes, ns, dev, res, i + 1, rf)

\* the route loop (lines 248-259), from the i-th route on
RECURSIVE AddRoutes(_, _, _, _, _, _)
AddRoutes(rs, ns, dev, res, i, rf) ==
    IF i > Len(res.Routes)
    THEN [err |-> "nil", routes |-> rs]
    ELSE LET add == IF rf = i THEN [err |-> "ENETUNREACH", routes |-> rs]
                    ELSE RouteAdd(rs, ns, res.Routes[i].Dst, RouteGW(res, i), dev)
         IN  IF add.err # "nil" /\ ~IsExist(add.err)
             THEN [err |-> "failed to add route", routes |-> rs]
             ELSE AddRoutes(add.routes, ns, dev, res, i + 1, rf)

\* configureInterface with every address-add failure fatal
configureInterface_NoTolerance(ls, as, rs, ns, ifName, res, f, rf) ==
    LET lk == LinkByName(ls, ns, ifName)
        dev == lk.link.index
        add == IF f = "AddrAdd" THEN [err |-> "EPERM", addrs |-> as]
               ELSE AddrAdd(as, dev, res.IP)
        rt == AddRoutes(rs, ns, dev, res, 1, rf)
    IN  IF lk.err # "nil"
        THEN [err |-> "failed to lookup", tolerated |-> FALSE,
              links |-> ls, addrs |-> as, routes |-> rs]
        ELSE IF f = "LinkSetUp"
        THEN [err |-> "failed to set UP", tolerated |-> FALSE,
              links |-> ls, addrs |-> as, routes |-> rs]
        ELSE IF add.err # "nil"
        THEN [err |-> "failed to add IP addr", tolerated |-> FALSE,
              links |-> LinkSetUp(ls, dev), addrs |-> as, routes |-> rs]
        ELSE [err |-> rt.err, tolerated |-> FALSE,
              links |-> LinkSetUp(ls, dev), addrs |-> add.addrs,
              routes |-> rt.routes]

\* tolerated: the "already has IP address" line was logged (line 242)
configureInterface(ls, as, rs, ns, ifName, res, f, rf) ==
    LET lk == LinkByName(ls, ns, ifName)
        dev == lk.link.index
        add == IF f = "AddrAdd" THEN [err |-> "EPERM", addrs |-> as]
               ELSE AddrAdd(as, dev, res.IP)
        exists == add.err # "nil" /\ ErrnoString(add.err) = "file exists"
        rt == AddRoutes(rs, ns, dev, res, 1, rf)
    IN  IF lk.err # "nil"
        THEN [err |-> "failed to lookup", tolerated |-> FALSE,
              links |-> ls, addrs |-> as, routes |-> rs]
        ELSE IF f = "LinkSetUp"
        THEN [err |-> "failed to set UP", tolerated |-> FALSE,
              links |-> ls, addrs |-> as, routes |-> rs]
        ELSE IF add.err # "nil" /\ ~exists
        THEN [err |-> "failed to add IP addr", tolerated |-> FALSE,
              links |-> LinkSetUp(ls, dev), addrs |-> as, routes |-> rs]
        ELSE [err |-> rt.err, tolerated |-> exists,
              links |-> LinkSetUp(ls, dev), addrs |-> add.addrs,
              routes |-> rt.routes]

----------------------------------------------------------------------------
(* checkIfContainerInterfaceExists (lines 264-277) and                     *)
(* setInterfaceMacAddress (lines 279-295).                                 *)

ContainerNS == "/ns/c1"
\* the namespace paths that can be entered
ExistingNS == {ContainerNS}
NetnsPaths == {ContainerNS, "/ns/gone"}

\* the probe looking the interface up without entering the namespace
checkIfContainerInterfaceExists_NoEnter(ls, netns, ifName, f) ==
    IF netns \notin ExistingNS THEN FALSE
    ELSE IF f = "LinkByName" THEN FALSE
    ELSE LinkByName(ls, HostNS, ifName).err = "nil"

checkIfContainerInterfaceExists(ls, netns, ifName, f) ==
    IF netns \notin ExistingNS THEN FALSE
    ELSE IF f = "LinkByName" THEN FALSE
    ELSE LinkByName(ls, netns, ifName).err = "nil"

Colon == -4

\* net.ParseMAC for the six-group colon form
ParseMAC(t) ==
    IF /\ Len(t) = 11
       /\ \A i \in {2, 4, 6, 8, 10} : t[i] = Colon
       /\ \A i \in {1, 3, 5, 7, 9, 11} : t[i] \in 0..255
    THEN <<t[1], t[3], t[5], t[7], t[9], t[11]>>
    ELSE NilHw

\* setInterfaceMacAddress parsing the address before the lookup
setInterfaceMacAddress_ParseFirst(ls, ns, ifName, mac, f) ==
    LET lk == LinkByName(ls, ns, ifName)
        hwaddr == ParseMAC(mac)
    IN  IF hwaddr = NilHw
        THEN [err |-> "failed to parse MAC address", links |-> ls]
        ELSE IF lk.err # "nil"
        THEN [err |-> "failed to lookup", links |-> ls]
        ELSE IF f = "LinkSetHardwareAddr"
        THEN [err |-> "failed to set hw address of interface", links |-> ls]
        ELSE [err |-> "nil",
              links |-> LinkSetHardwareAddr(ls, lk.link.index, hwaddr)]

setInterfaceMacAddress(ls, ns, ifName, mac, f) ==
    LET lk == LinkByName(ls, ns, ifName)
        hwaddr == ParseMAC(mac)
    IN  IF lk.err # "nil"
        THEN [err |-> "failed to lookup", links |-> ls]
        ELSE IF hwaddr = NilHw
        THEN [err |-> "failed to parse MAC address", links |-> ls]
        ELSE IF f = "LinkSetHardwareAddr"
        THEN [err |-> "failed to set hw address of interface", links |-> ls]
        ELSE [err |-> "nil",
              links |-> LinkSetHardwareAddr(ls, lk.link.index, hwaddr)]

----------------------------------------------------------------------------
(* The host side: the bridge operations called one after another.          *)

InitKinds == {"none", "dummy", "bridge"}

EbFaults == {"none", "LinkAdd", "LinkByName", "LinkSetUp"}
AddrFaults == {"none", "AddrList", "AddrListENOENT", "AddrAdd"}

AddrTargets ==
    { [IP |-> <<10, 0, 0, 1>>, Len |-> 24],
      [IP |-> <<10, 0, 0, 2>>, Len |-> 24],
      [IP |-> <<10, 0, 0, 1>>, Len |-> 16] }

BridgeConfs ==
    [BrName : BrNames,
     BrSubnet : { <<>>, IPString(<<10, 0, 0, 0>>) \o <<Slash, 24>> },
     BrIP : { <<>>, IPString(<<10, 0, 0, 2>>), IPString(<<10, 1, 0, 5>>) },
     MTU : {1500}]

BrInitIndex(n) == IF n = "cni0" THEN 1 ELSE 2

Init ==
    /\ \E ik \in [BrNames -> InitKinds], mtu \in MTUs, up \in BOOLEAN :
          /\ initKind = ik
          /\ links = { [index |-> BrInitIndex(n), ns |-> HostNS, name |-> n,
                        kind |-> ik[n], up |-> up, mtu |-> mtu, hw |-> KernelHw] :
                       n \in {m \in BrNames : ik[m] # "none"} }
    /\ addrs = {}
    /\ routes = {}
    /\ ebCalls = [n \in BrNames |-> 0]
    /\ ebClean = [n \in BrNames |-> TRUE]
    /\ ports = {}
    /\ proc = <<>>
    /\ last = [op |-> "init"]

EnsureBridge ==
    \E name \in BrNames, mtu \in MTUs, f \in EbFaults :
        /\ ebCalls[name] < MaxCalls
        /\ LET r == ensureBridge(links, name, mtu, f)
           IN  /\ links' = r.links
               /\ last' = [op |-> "ensureBridge", name |-> name, mtu |-> mtu,
                           fault |-> f, err |-> r.err, br |-> r.br,
                           path |-> r.path]
        /\ ebCalls' = [ebCalls EXCEPT ![name] = @ + 1]
        /\ ebClean' = [ebClean EXCEPT ![name] = @ /\ f = "none"]
        /\ UNCHANGED <<addrs, routes, initKind, ports, proc>>

SetupBridge ==
    \E n \in BridgeConfs, f \in EbFaults :
        /\ ebCalls[n.BrName] < MaxCalls
        /\ LET r == setupBridge(links, addrs, n, f)
           IN  /\ links' = r.links
               /\ addrs' = r.addrs
               /\ last' = [op |-> "setupBridge", conf |-> n, fault |-> f,
                           err |-> r.err, br |-> r.br, path |-> r.path]
        /\ ebCalls' = [ebCalls EXCEPT ![n.BrName] = @ + 1]
        /\ ebClean' = [ebClean EXCEPT ![n.BrName] = @ /\ f = "none"]
        /\ UNCHANGED <<routes, initKind, ports, proc>>

\* the bridge handed to ensureBridgeAddr is one ensureBridge returned
EnsureBridgeAddr ==
    \E b \in {l \in links : l.ns = HostNS /\ l.kind = "bridge"},
       ipn \in AddrTargets, f \in AddrFaults :
        LET r == ensureBridgeAddr(addrs, b.index, ipn, f)
        IN  /\ addrs' = r.addrs
            /\ last' = [op |-> "ensureBridgeAddr", br |-> b.index, ipn |-> ipn,
                        fault |-> f, err |-> r.err]
            /\ UNCHANGED <<links, routes, ebCalls, ebClean, initKind, ports, proc>>

SetBridgeIP ==
    \E n \in BridgeConfs, f \in AddrFaults :
        LET r == setBridgeIP(links, addrs, n, f)
        IN  /\ addrs' = r.addrs
            /\ last' = [op |-> "setBridgeIP", conf |-> n, fault |-> f,
                        err |-> r.err]
            /\ UNCHANGED <<links, routes, ebCalls, ebClean, initKind, ports, proc>>

Next ==
    \/ EnsureBridge
    \/ SetupBridge
    \/ EnsureBridgeAddr
    \/ SetBridgeIP

Spec == Init /\ [][Next]_vars

HostLinksNamed(ls, n) == {l \in ls : l.ns = HostNS /\ l.name = n}

\* C1: starting with no device of the name, every ensureBridge call for it
\* (no kernel call failing for an outside reason) returns success, leaves
\* exactly one device of that name, a bridge that is up and is the one
\* returned; the first call creates it, the second and later calls take the
\* "already exists" path.
C1_EnsureBridgeIdempotent ==
    \A n \in BrNames :
        (/\ initKind[n] = "none"
         /\ ebClean[n]
         /\ last.op = "ensureBridge"
         /\ last.name = n)
        => /\ last.err = "nil"
           /\ Cardinality(HostLinksNamed(links, n)) = 1
           /\ \A l \in HostLinksNamed(links, n) :
                 l.kind = "bridge" /\ l.up /\ l.index = last.br
           /\ (ebCalls[n] = 1 => last.path = "created")
           /\ (ebCalls[n] >= 2 => last.path = "exists")

\* a second or later call on a name that was free at the start
C1_Witness ==
    \E n \in BrNames :
        /\ initKind[n] = "none"
        /\ ebClean[n]
        /\ last.op = "ensureBridge"
        /\ last.name = n
        /\ ebCalls[n] >= 2
        /\ last.path = "exists"
        /\ last.err = "nil"

\* C2: when the name is held by a device that is not a bridge, ensureBridge
\* fails and returns no bridge, with the type-mismatch error when no kernel
\* call fails for an outside reason, and leaves the link table unchanged (the
\* device is not brought up).
C2_NonBridgeRejected ==
    [][ (/\ last'.op = "ensureBridge"
         /\ \E l \in HostLinksNamed(links, last'.name) : l.kind # "bridge")
        => /\ last'.err # "nil"
           /\ last'.br = 0
           /\ links' = links
           /\ (last'.fault = "none"
                 => last'.err = "already exists but is not a bridge") ]_vars

\* ensureBridge met a device of another kind that is down, and left it down
C2_Witness ==
    /\ last.op = "ensureBridge"
    /\ last.err = "already exists but is not a bridge"
    /\ \E l \in HostLinksNamed(links, last.name) : l.kind = "dummy" /\ ~l.up

\* C5: ensureBridgeAddr, when its kernel calls do not fail for an outside
\* reason, has three outcomes: no address on the bridge: the target is added,
\* success; an address with the target's CIDR string: success, nothing
\* changes; otherwise the Conflict error, nothing changes.  No call, failing
\* or not, removes or replaces an address.
C5_EnsureBridgeAddrOutcomes ==
    [][ last'.op = "ensureBridgeAddr"
        => LET pre == AddrList(addrs, last'.br)
               t == last'.ipn
           IN  /\ addrs \subseteq addrs'
               /\ last'.fault = "none" =>
                    IF pre = {}
                    THEN /\ last'.err = "nil"
                         /\ addrs' = addrs \cup {[dev |-> last'.br, ipn |-> t]}
                    ELSE IF \E a \in pre : IPNetString(a) = IPNetString(t)
                    THEN last'.err = "nil" /\ addrs' = addrs
                    ELSE /\ last'.err = "already has an IP address different"
                         /\ addrs' = addrs ]_vars

\* the Conflict outcome: the bridge keeps its one, different, address
C5_Witness ==
    /\ last.op = "ensureBridgeAddr"
    /\ last.fault = "none"
    /\ last.err = "already has an IP address different"
    /\ AddrList(addrs, last.br) # {}
    /\ last.ipn \notin AddrList(addrs, last.br)

\* C6: setBridgeIP, when the bridge link has IPv4 addresses and none equals
\* the computed target, fails with the AddressConflict error and leaves the
\* addresses unchanged.
C6_SetBridgeIPConflict ==
    [][ (/\ last'.op = "setBridgeIP"
         /\ last'.fault = "none"
         /\ LinkByName(links, HostNS, last'.conf.BrName).err = "nil"
         /\ calculateBridgeIP(last'.conf).err = "nil"
         /\ LET pre == AddrList(addrs,
                         LinkByName(links, HostNS, last'.conf.BrName).link.index)
            IN  /\ pre # {}
                /\ \A a \in pre :
                      IPNetString(a) # IPNetString(calculateBridgeIP(last'.conf).ipn))
        => /\ last'.err # "nil"
           /\ addrs' = addrs ]_vars

\* C18: after a successful ensureBridge(name, mtu) the bridge of that name
\* has MTU mtu, also when the device existed before the call.
C18_MtuMatchesRequest ==
    (last.op = "ensureBridge" /\ last.err = "nil")
    => \A l \in HostLinksNamed(links, last.name) : l.mtu = last.mtu

\* C20: setupBridge leaves the addresses as they are (none on a bridge it
\* has just created), whatever BrSubnet and BrIP say; when no kernel call
\* fails for an outside reason and the name is not held by a device of
\* another kind it succeeds, a missing BrSubnet included, with the bridge up.
C20_SetupBridgeLeavesAddrs ==
    [][ last'.op = "setupBridge"
        => /\ addrs' = addrs
           /\ (last'.path = "created" /\ last'.err = "nil")
                => AddrList(addrs', last'.br) = {}
           /\ (/\ last'.fault = "none"
               /\ \A l \in HostLinksNamed(links, last'.conf.BrName) :
                     l.kind = "bridge")
                => /\ last'.err = "nil"
                   /\ \E l \in HostLinksNamed(links', last'.conf.BrName) :
                         l.kind = "bridge" /\ l.up /\ l.index = last'.br ]_vars

\* setupBridge succeeded without a BrSubnet, on a bridge that holds addresses
C20_Witness ==
    /\ last.op = "setupBridge"
    /\ last.err = "nil"
    /\ last.conf.BrSubnet = <<>>
    /\ AddrList(addrs, last.br) # {}

----------------------------------------------------------------------------
(* The container side: the interface operations called one after another   *)
(* in the container's namespace.                                           *)

IfNames == {"eth0", "eth1"}

DefaultNet == [IP |-> <<0, 0, 0, 0>>, Len |-> 0]
RouteChoices ==
    { [Dst |-> DefaultNet, GW |-> NilIP],
      [Dst |-> DefaultNet, GW |-> <<10, 0, 0, 9>>],
      [Dst |-> [IP |-> <<192, 168, 0, 0>>, Len |-> 16], GW |-> NilIP] }

RouteSeqs == UNION { [1..k -> RouteChoices] : k \in 0..MaxRoutes }

\* types.Result.IP4: address, gateway, routes
IPAMResults ==
    [IP : {[IP |-> <<10, 0, 0, 7>>, Len |-> 24]},
     Gateway : {<<10, 0, 0, 1>>},
     Routes : RouteSeqs]

CfgFaults == {"none", "LinkSetUp", "AddrAdd"}

MacTexts ==
    { <<2, Colon, 66, Colon, 10, Colon, 0, Colon, 0, Colon, 7>>,
      <<2, Colon, 66, Colon, 10, Colon, 0, Colon, 0>>,
      <<2, Colon, 66, Colon, 10, Colon, 0, Colon, 0, Colon, 256>>,
      <<Junk>> }

InitIface ==
    /\ \E present \in BOOLEAN, up \in BOOLEAN :
          links = IF present
                  THEN {[index |-> 1, ns |-> ContainerNS, name |-> "eth0",
                         kind |-> "veth", up |-> up, mtu |-> 1500,
                         hw |-> KernelHw]}
                  ELSE {}
    /\ addrs = {}
    /\ routes = {}
    /\ ebCalls = [n \in BrNames |-> 0]
    /\ ebClean = [n \in BrNames |-> TRUE]
    /\ initKind = [n \in BrNames |-> "none"]
    /\ ports = {}
    /\ proc = <<>>
    /\ last = [op |-> "init"]

ConfigureInterface ==
    \E ifName \in IfNames, res \in IPAMResults, f \in CfgFaults,
       rf \in 0..MaxRoutes :
        \* at most one failure per call, at a route the result holds
        /\ rf <= Len(res.Routes)
        /\ f # "none" => rf = 0
        /\ LET r == configureInterface(links, addrs, routes, ContainerNS,
                                       ifName, res, f, rf)
           IN
            /\ links' = r.links
            /\ addrs' = r.addrs
            /\ routes' = r.routes
            /\ last' = [op |-> "configureInterface", ns |-> ContainerNS,
                        ifName |-> ifName, res |-> res, fault |-> f,
                        rfault |-> rf, err |-> r.err,
                        tolerated |-> r.tolerated]
            /\ UNCHANGED <<ebCalls, ebClean, initKind, ports, proc>>

CheckIfContainerInterfaceExists ==
    \E netns \in NetnsPaths, ifName \in IfNames, f \in {"none", "LinkByName"} :
        /\ last' = [op |-> "checkIfContainerInterfaceExists", netns |-> netns,
                    ifName |-> ifName, fault |-> f,
                    ret |-> checkIfContainerInterfaceExists(links, netns,
                                                            ifName, f)]
        /\ UNCHANGED <<links, addrs, routes, ebCalls, ebClean, initKind, ports, proc>>

SetInterfaceMacAddress ==
    \E ifName \in IfNames, mac \in MacTexts,
       f \in {"none", "LinkSetHardwareAddr"} :
        LET r == setInterfaceMacAddress(links, ContainerNS, ifName, mac, f)
        IN  /\ links' = r.links
            /\ last' = [op |-> "setInterfaceMacAddress", ns |-> ContainerNS,
                        ifName |-> ifName, mac |-> mac, fault |-> f,
                        err |-> r.err]
            /\ UNCHANGED <<addrs, routes, ebCalls, ebClean, initKind, ports, proc>>

NextIface ==
    \/ ConfigureInterface
    \/ CheckIfContainerInterfaceExists
    \/ SetInterfaceMacAddress

SpecIface == InitIface /\ [][NextIface]_vars

\* the interface a call names is there
IfaceFound(ls, ns, ifName) == \E l \in ls : l.ns = ns /\ l.name = ifName
IfaceIndex(ls, ns, ifName) ==
    (CHOOSE l \in ls : l.ns = ns /\ l.name = ifName).index

\* C7: in configureInterface an address add that fails because the address is
\* already there is tolerated: the routes are still processed and the call
\* succeeds when no route fails; any other address-add failure returns an
\* error with no route installed.  A call repeating a successful call's
\* arguments succeeds and leaves links, addresses and routes unchanged.
C7_AddressAlreadyPresent ==
    [][ (/\ last'.op = "configureInterface"
         /\ IfaceFound(links, last'.ns, last'.ifName)
         /\ last'.fault # "LinkSetUp")
        => LET dev == IfaceIndex(links, last'.ns, last'.ifName)
               res == last'.res
               had == res.IP \in AddrList(addrs, dev)
               dsts == {r.dst : r \in {x \in routes' : x.ns = last'.ns}}
           IN  /\ last'.fault = "AddrAdd"
                    => /\ last'.err = "failed to add IP addr"
                       /\ routes' = routes
                       /\ addrs' = addrs
               /\ (last'.fault = "none" /\ had)
                    => /\ last'.tolerated
                       /\ addrs' = addrs
                       /\ last'.err # "failed to add IP addr"
                       /\ last'.rfault = 0
                            => /\ last'.err = "nil"
                               /\ \A i \in 1..Len(res.Routes) :
                                     res.Routes[i].Dst \in dsts
               /\ (/\ last.op = "configureInterface"
                   /\ last.err = "nil"
                   /\ last.ifName = last'.ifName
                   /\ last.res = res
                   /\ last'.fault = "none"
                   /\ last'.rfault = 0)
                    => /\ last'.err = "nil"
                       /\ links' = links
                       /\ addrs' = addrs
                       /\ routes' = routes ]_vars

\* a call found the address in place, went on to its routes and succeeded
C7_Witness ==
    /\ last.op = "configureInterface"
    /\ last.tolerated
    /\ last.err = "nil"
    /\ Len(last.res.Routes) >= 1

\* the routes a call installs: of the routes before the failing one, in
\* order, each destination's first route, unless the table held the
\* destination already; with the route's own gateway, else the IPAM one
C8_Installed(rs, ns, dev, res, rf) ==
    LET R == res.Routes
        upto == IF rf \in 1..Len(R) THEN rf - 1 ELSE Len(R)
    IN  { [ns |-> ns, dst |-> R[i].Dst,
           gw |-> IF R[i].GW # NilIP THEN R[i].GW ELSE res.Gateway,
           dev |-> dev] :
          i \in { j \in 1..upto :
                    /\ \A k \in 1..(j - 1) : R[k].Dst # R[j].Dst
                    /\ \A r \in rs : ~(r.ns = ns /\ r.dst = R[j].Dst) } }

\* C8: configureInterface processes the routes in order, each with its own
\* gateway or else the IPAM gateway; a route whose destination already has a
\* route is skipped and the later ones are still processed; at the first
\* route failing for another reason the call returns an error, installs no
\* later route and keeps the earlier ones.
C8_RoutesInOrder ==
    [][ (/\ last'.op = "configureInterface"
         /\ IfaceFound(links, last'.ns, last'.ifName)
         /\ last'.fault = "none")
        => LET dev == IfaceIndex(links, last'.ns, last'.ifName)
               res == last'.res
               rf == last'.rfault
           IN  /\ routes' = routes \cup C8_Installed(routes, last'.ns, dev, res, rf)
               /\ last'.err = IF rf \in 1..Len(res.Routes)
                              THEN "failed to add route" ELSE "nil" ]_vars

\* the second route failed: an error, the first route, gateway defaulted, stays
C8_Witness ==
    /\ last.op = "configureInterface"
    /\ last.err = "failed to add route"
    /\ last.rfault = 2
    /\ last.res.Routes[1].GW = NilIP
    /\ \E r \in routes :
          /\ r.dst = last.res.Routes[1].Dst
          /\ r.gw = last.res.Gateway

\* C9: the probe returns true exactly when the namespace path can be entered
\* and the interface is found in that namespace; a missing namespace, an
\* absent interface and a failed lookup all give false; it changes no link,
\* address or route.
C9_ProbeCollapsesFailures ==
    [][ last'.op = "checkIfContainerInterfaceExists"
        => /\ last'.ret = (/\ last'.netns \in ExistingNS
                           /\ last'.fault = "none"
                           /\ IfaceFound(links, last'.netns, last'.ifName))
           /\ links' = links
           /\ addrs' = addrs
           /\ routes' = routes ]_vars

\* the probe found the interface in the container's namespace
C9_Witness ==
    /\ last.op = "checkIfContainerInterfaceExists"
    /\ last.ret
    /\ IfaceFound(links, last.netns, last.ifName)
    /\ ~IfaceFound(links, HostNS, last.ifName)

\* C10 as stated: a malformed MAC gives the parse error whether or not the
\* interface exists.
C10_ParseBeforeLookup ==
    (last.op = "setInterfaceMacAddress" /\ ParseMAC(last.mac) = NilHw)
    => last.err = "failed to parse MAC address"

\* C10 amended: setInterfaceMacAddress resolves the interface before it
\* parses the MAC: for an absent interface it fails with the lookup error
\* whether or not the MAC is well-formed; the parse error is reported only
\* when the interface exists; a malformed MAC never changes a link.
C10_LookupBeforeParse ==
    [][ last'.op = "setInterfaceMacAddress"
        => LET found == IfaceFound(links, last'.ns, last'.ifName)
               bad == ParseMAC(last'.mac) = NilHw
           IN  /\ ~found => (last'.err = "failed to lookup" /\ links' = links)
               /\ (found /\ bad)
                    => (last'.err = "failed to parse MAC address" /\ links' = links)
               /\ last'.err = "failed to parse MAC address" => (found /\ bad)
               /\ bad => links' = links ]_vars

\* a malformed MAC for an absent interface: the lookup error
C10_Witness ==
    /\ last.op = "setInterfaceMacAddress"
    /\ ParseMAC(last.mac) = NilHw
    /\ ~IfaceFound(links, last.ns, last.ifName)
    /\ last.err = "failed to lookup"

----------------------------------------------------------------------------
(* setupVeth (lines 86-120), step by step, behind the caller's probe.      *)
(* proc is the one invocation: pc, the namespace it executes in (curNS),   *)
(* the locals of setupVeth, and the steps it has run (trace).              *)

\* attach invocations for the one container
MaxAttach == 3

VethIfName == "eth0"
\* the names ip.SetupVeth draws for the host end
HostVethNames == {"veth1a2b", "veth3c4d"}
\* the index of the bridge handed to setupVeth
VethBridge == 1

\* ip.SetupVeth, called inside the container's namespace: makes the pair
\* there, both ends up, and moves the host end to hostNS, where it keeps its
\* index or gets a new one (moved); handle is the host end as seen before
\* the move
ipSetupVeth(ls, contNS, hostNS, ifName, mtu, hostName, moved) ==
    IF \E l \in ls : l.ns = contNS /\ l.name = ifName
    THEN [err |-> "EEXIST", links |-> ls, handle |-> 0, name |-> ""]
    ELSE LET i == NextIndex(ls)
         IN  [err |-> "nil", handle |-> i + 1, name |-> hostName,
              links |-> ls \cup
                 { [index |-> i, ns |-> contNS, name |-> ifName,
                    kind |-> "veth", up |-> TRUE, mtu |-> mtu, hw |-> KernelHw],
                   [index |-> IF moved THEN i + 2 ELSE i + 1, ns |-> hostNS,
                    name |-> hostName, kind |-> "veth", up |-> TRUE,
                    mtu |-> mtu, hw |-> KernelHw] }]

\* netlink.LinkSetMaster, by index, in the namespace the caller executes in
LinkSetMaster(ps, ls, ns, dev, master) ==
    IF ~\E l \in ls : l.ns = ns /\ l.index = dev
    THEN [err |-> "ENODEV", ports |-> ps]
    ELSE [err |-> "nil",
          ports |-> {p \in ps : p.dev # dev}
                    \cup {[dev |-> dev, master |-> master, hairpin |-> FALSE]}]

\* netlink.LinkSetHairpin: the link must be a bridge port
LinkSetHairpin(ps, ls, ns, dev, mode) ==
    IF ~\E l \in ls : l.ns = ns /\ l.index = dev
    THEN [err |-> "ENODEV", ports |-> ps]
    ELSE IF ~\E p \in ps : p.dev = dev
    THEN [err |-> "EOPNOTSUPP", ports |-> ps]
    ELSE [err |-> "nil",
          ports |-> {IF p.dev = dev THEN [p EXCEPT !.hairpin = mode] ELSE p :
                     p \in ps}]

\* netns.Do leaving the container's namespace only when the callback succeeded
netnsDoRestore_OnSuccess(saved, cur, err) ==
    IF err = "nil" THEN saved ELSE cur

\* netns.Do (lines 89-98): the namespace the thread is in after the callback
netnsDoRestore(saved, cur, err) == saved

\* setupVeth going on to the next step whatever the step returned
setupVethNext_IgnoreErr(pc, err) ==
    IF pc = "leave" THEN (IF err # "nil" THEN "return" ELSE "lookup")
    ELSE IF pc = "lookup" THEN (IF err # "nil" THEN "return" ELSE "master")
    ELSE IF pc = "master" THEN "hairpin"
    ELSE "return"

\* the step setupVeth goes to after the step at pc returned err: every
\* error returns at once (lines 99-101, 105-107, 110-112, 115-117)
setupVethNext(pc, err) ==
    IF err # "nil" THEN "return"
    ELSE IF pc = "leave" THEN "lookup"
    ELSE IF pc = "lookup" THEN "master"
    ELSE IF pc = "master" THEN "hairpin"
    ELSE "return"

\* setupVeth keeping the link handle it got inside the container's namespace
setupVethHandle_Stale(inner, looked) == inner

\* the handle LinkSetMaster and LinkSetHairpin are given: the one looked up
\* by name in the host namespace (lines 104, 110, 115)
setupVethHandle(inner, looked) == looked

\* the caller's guard: setupVeth runs only when the probe finds no interface
attachRunsSetupVeth(ls, netns, ifName, f) ==
    ~checkIfContainerInterfaceExists(ls, netns, ifName, f)

IdleProc(n) ==
    [pc |-> "idle", curNS |-> HostNS, attaches |-> n, hairpin |-> FALSE,
     hostVethName |-> "", inner |-> 0, hostVeth |-> 0, used |-> 0,
     err |-> "nil", fault |-> FALSE, trace |-> <<>>]

InitVeth ==
    /\ links = {[index |-> VethBridge, ns |-> HostNS, name |-> "cni0",
                 kind |-> "bridge", up |-> TRUE, mtu |-> 1500, hw |-> KernelHw]}
    /\ addrs = {}
    /\ routes = {}
    /\ ports = {}
    /\ ebCalls = [n \in BrNames |-> 0]
    /\ ebClean = [n \in BrNames |-> TRUE]
    /\ initKind = [n \in BrNames |-> "bridge"]
    /\ proc = IdleProc(0)
    /\ last = [op |-> "init"]

\* what setupVeth returned, and the invocation is over
VethReturn(p, err, step) ==
    /\ proc' = [IdleProc(p.attaches) EXCEPT !.curNS = p.curNS]
    /\ last' = [op |-> "setupVeth", err |-> err, step |-> step,
                fault |-> p.fault, hairpin |-> p.hairpin,
                hostVethName |-> p.hostVethName, inner |-> p.inner,
                used |-> p.used, trace |-> p.trace]

\* one attach: the probe, then setupVeth unless the interface is there
Attach ==
    \E f \in {"none", "LinkByName"}, hairpinMode \in BOOLEAN :
        /\ proc.pc = "idle"
        /\ proc.attaches < MaxAttach
        /\ IF attachRunsSetupVeth(links, ContainerNS, VethIfName, f)
           THEN /\ proc' = [IdleProc(proc.attaches + 1) EXCEPT
                                !.pc = "enter", !.hairpin = hairpinMode,
                                !.curNS = proc.curNS,
                                !.fault = (f # "none")]
                /\ UNCHANGED last
           ELSE /\ proc' = [IdleProc(proc.attaches + 1) EXCEPT
                                !.curNS = proc.curNS]
                /\ last' = [op |-> "attach", ran |-> FALSE]
        /\ UNCHANGED <<links, addrs, routes, ports, ebCalls, ebClean, initKind>>

\* netns.Do switches the thread into the container's namespace (line 89)
SetupVethEnter ==
    /\ proc.pc = "enter"
    /\ proc' = [proc EXCEPT !.pc = "create", !.curNS = ContainerNS,
                            !.trace = Append(@, "enter")]
    /\ UNCHANGED <<links, addrs, routes, ports, ebCalls, ebClean, initKind, last>>

\* the callback: ip.SetupVeth (lines 91-96)
SetupVethCreate ==
    \E fail \in BOOLEAN, moved \in BOOLEAN,
       hn \in {h \in HostVethNames :
                 ~\E l \in links : l.ns = HostNS /\ l.name = h} :
        LET r == IF fail
                 THEN [err |-> "EPERM", links |-> links, handle |-> 0, name |-> ""]
                 ELSE ipSetupVeth(links, proc.curNS, HostNS, VethIfName, 1500,
                                  hn, moved)
        IN  /\ proc.pc = "create"
            /\ links' = r.links
            /\ proc' = [proc EXCEPT !.pc = "leave", !.err = r.err,
                                    !.inner = r.handle, !.hostVethName = r.name,
                                    !.fault = @ \/ fail,
                                    !.trace = Append(@, "create")]
            /\ UNCHANGED <<addrs, routes, ports, ebCalls, ebClean, initKind, last>>

\* netns.Do returns (lines 98-101)
SetupVethLeave ==
    LET p == [proc EXCEPT !.curNS = netnsDoRestore(HostNS, proc.curNS, proc.err),
                          !.trace = Append(@, "leave")]
    IN  /\ proc.pc = "leave"
        /\ IF setupVethNext("leave", proc.err) = "return"
           THEN VethReturn(p, proc.err, "create")
           ELSE proc' = [p EXCEPT !.pc = setupVethNext("leave", proc.err)]
                /\ UNCHANGED last
        /\ UNCHANGED <<links, addrs, routes, ports, ebCalls, ebClean, initKind>>

\* the host end is looked up again by name (lines 104-107)
SetupVethLookup ==
    \E fail \in BOOLEAN :
        LET r == IF fail THEN [err |-> "Link not found", link |-> NoLink]
                 ELSE LinkByName(links, proc.curNS, proc.hostVethName)
            p == [proc EXCEPT !.hostVeth = r.link.index,
                              !.fault = @ \/ fail,
                              !.trace = Append(@, "lookup")]
        IN  /\ proc.pc = "lookup"
            /\ IF setupVethNext("lookup", r.err) = "return"
               THEN VethReturn(p, "failed to lookup", "lookup")
               ELSE proc' = [p EXCEPT !.pc = setupVethNext("lookup", r.err)]
                    /\ UNCHANGED last
            /\ UNCHANGED <<links, addrs, routes, ports, ebCalls, ebClean, initKind>>

\* the host end is connected to the bridge (lines 110-112)
SetupVethSetMaster ==
    \E fail \in BOOLEAN :
        LET h == setupVethHandle(proc.inner, proc.hostVeth)
            r == IF fail THEN [err |-> "EPERM", ports |-> ports]
                 ELSE LinkSetMaster(ports, links, proc.curNS, h, VethBridge)
            p == [proc EXCEPT !.used = h, !.fault = @ \/ fail,
                              !.trace = Append(@, "master")]
        IN  /\ proc.pc = "master"
            /\ ports' = r.ports
            /\ IF setupVethNext("master", r.err) = "return"
               THEN VethReturn(p, "failed to connect to bridge", "master")
               ELSE proc' = [p EXCEPT !.pc = setupVethNext("master", r.err)]
                    /\ UNCHANGED last
            /\ UNCHANGED <<links, addrs, routes, ebCalls, ebClean, initKind>>

\* hairpin mode is set (lines 115-119)
SetupVethSetHairpin ==
    \E fail \in BOOLEAN :
        LET h == setupVethHandle(proc.inner, proc.hostVeth)
            r == IF fail THEN [err |-> "EPERM", ports |-> ports]
                 ELSE LinkSetHairpin(ports, links, proc.curNS, h, proc.hairpin)
            p == [proc EXCEPT !.fault = @ \/ fail,
                              !.trace = Append(@, "hairpin")]
        IN  /\ proc.pc = "hairpin"
            /\ ports' = r.ports
            /\ VethReturn(p, IF r.err # "nil"
                             THEN "failed to setup hairpin mode" ELSE "nil",
                          "hairpin")
            /\ UNCHANGED <<links, addrs, routes, ebCalls, ebClean, initKind>>

NextVeth ==
    \/ Attach
    \/ SetupVethEnter
    \/ SetupVethCreate
    \/ SetupVethLeave
    \/ SetupVethLookup
    \/ SetupVethSetMaster
    \/ SetupVethSetHairpin

SpecVeth == InitVeth /\ [][NextVeth]_vars

\* the veth links of the host namespace
HostVeths == {l \in links : l.ns = HostNS /\ l.kind = "veth"}

\* the host-namespace link of that name is a port of the bridge
EnslavedByName(name) ==
    \E h \in links : /\ h.ns = HostNS /\ h.name = name
                     /\ \E p \in ports : p.dev = h.index /\ p.master = VethBridge

BothEndsExist(name) ==
    /\ \E c \in links : c.ns = ContainerNS /\ c.name = VethIfName
    /\ \E h \in links : h.ns = HostNS /\ h.name = name

VethStepOrder == <<"enter", "create", "leave", "lookup", "master", "hairpin">>

\* C11: after a guarded attach that returned success, whether it ran
\* setupVeth or found the interface and skipped it, at most one veth pair
\* exists for the container and its host end is enslaved to the bridge.
C11_GuardedAttachConverges ==
    (/\ proc.pc = "idle"
     /\ \/ last.op = "attach"
        \/ last.op = "setupVeth" /\ last.err = "nil") =>
        /\ Cardinality(HostVeths) <= 1
        /\ \A h \in HostVeths :
              \E p \in ports : p.dev = h.index /\ p.master = VethBridge

\* C12: after a successful setupVeth the container end has the requested
\* name in the container namespace, the host end is in the host namespace
\* with the bridge as master and the requested hairpin setting, the steps ran
\* in the fixed order, and whenever the master step ran it was given the
\* index the host end has in the host namespace, not the handle obtained
\* inside the container namespace.
C12_SuccessfulSetupVeth ==
    last.op = "setupVeth" =>
        /\ (\E i \in 1..Len(last.trace) : last.trace[i] = "master") =>
              \E h \in links : /\ h.ns = HostNS
                               /\ h.name = last.hostVethName
                               /\ h.index = last.used
        /\ last.err = "nil" =>
              /\ \E c \in links : /\ c.ns = ContainerNS
                                  /\ c.name = VethIfName
                                  /\ c.kind = "veth"
              /\ \E h \in links :
                    /\ h.ns = HostNS
                    /\ h.name = last.hostVethName
                    /\ [dev |-> h.index, master |-> VethBridge,
                        hairpin |-> last.hairpin] \in ports
              /\ last.trace = VethStepOrder

\* a successful setupVeth whose host end changed its index on the move
C12_Witness ==
    /\ last.op = "setupVeth"
    /\ last.err = "nil"
    /\ last.hairpin
    /\ last.inner # last.used

\* C13: setupVeth executes in the host namespace at every step after the
\* scoped create and whenever it has returned, with or without an error.
C13_BackInHostNS ==
    proc.pc \in {"idle", "lookup", "master", "hairpin"} => proc.curNS = HostNS

\* setupVeth returned the error of the create inside the container namespace
C13_Witness ==
    /\ last.op = "setupVeth"
    /\ last.step = "create"
    /\ last.err # "nil"
    /\ proc.pc = "idle"
    /\ proc.curNS = HostNS

\* C14: when the lookup, the set-master or the set-hairpin step fails,
\* setupVeth has run no later step, the veth pair still exists, and the host
\* end is a port of the bridge exactly when the failing step was set-hairpin.
C14_NoRollback ==
    (/\ last.op = "setupVeth"
     /\ last.err # "nil"
     /\ last.step \in {"lookup", "master", "hairpin"}) =>
        /\ last.trace = SubSeq(VethStepOrder, 1, Len(last.trace))
        /\ last.trace[Len(last.trace)] = last.step
        /\ BothEndsExist(last.hostVethName)
        /\ EnslavedByName(last.hostVethName) <=> last.step = "hairpin"

\* setupVeth failed at the set-hairpin step
C14_Witness ==
    /\ last.op = "setupVeth"
    /\ last.err = "failed to setup hairpin mode"
    /\ last.step = "hairpin"
    /\ EnslavedByName(last.hostVethName)

----------------------------------------------------------------------------
(* Concurrent invocations of ensureBridge (lines 54-84) for one name: each *)
(* kernel call is one atomic step, proc[p] is invocation p.                *)

\* concurrent invocations
NProcs == 2

Procs == 1..NProcs

\* ensureBridge failing on every LinkAdd error, "already exists" included
ensureBridgeAfterAdd_NoReuse(err) ==
    IF err # "nil" THEN "fail" ELSE "setUp"

\* where ensureBridge goes after LinkAdd returned err (lines 67-77)
ensureBridgeAfterAdd(err) ==
    IF err = "nil" THEN "setUp"
    ELSE IF err # "EEXIST" THEN "fail"
    ELSE "byName"

InitConcBridge ==
    /\ links = {}
    /\ addrs = {}
    /\ routes = {}
    /\ ports = {}
    /\ ebCalls = [n \in BrNames |-> 0]
    /\ ebClean = [n \in BrNames |-> TRUE]
    /\ initKind = [n \in BrNames |-> "none"]
    /\ \E m \in [Procs -> MTUs] :
          proc = [p \in Procs |->
                    [pc |-> "add", brName |-> "cni0", mtu |-> m[p], br |-> 0,
                     err |-> "nil", path |-> "none", fault |-> FALSE]]
    /\ last = [op |-> "init"]

\* netlink.LinkAdd (line 67) and the branch on its error (lines 68-77)
EbLinkAdd ==
    \E p \in Procs, fail \in BOOLEAN :
        LET me == proc[p]
            r == IF fail THEN [err |-> "EPERM", links |-> links, index |-> 0]
                 ELSE LinkAdd(links, HostNS, me.brName, "bridge", me.mtu)
            nxt == ensureBridgeAfterAdd(r.err)
        IN  /\ me.pc = "add"
            /\ links' = r.links
            /\ proc' = [proc EXCEPT ![p] =
                  IF nxt = "fail"
                  THEN [me EXCEPT !.pc = "done", !.err = "could not add",
                                  !.fault = fail]
                  ELSE IF nxt = "byName"
                  THEN [me EXCEPT !.pc = "byName", !.path = "exists"]
                  ELSE [me EXCEPT !.pc = "setUp", !.path = "created",
                                  !.br = r.index]]
            /\ last' = [op |-> "LinkAdd", proc |-> p, err |-> r.err]
            /\ UNCHANGED <<addrs, routes, ports, ebCalls, ebClean, initKind>>

\* bridgeByName after "already exists" (lines 73-76)
EbBridgeByName ==
    \E p \in Procs, f \in {"none", "LinkByName"} :
        LET me == proc[p]
            r == bridgeByName(links, me.brName, f)
        IN  /\ me.pc = "byName"
            /\ proc' = [proc EXCEPT ![p] =
                  IF r.err # "nil"
                  THEN [me EXCEPT !.pc = "done", !.err = r.err,
                                  !.fault = (f # "none")]
                  ELSE [me EXCEPT !.pc = "setUp", !.br = r.br]]
            /\ last' = [op |-> "bridgeByName", proc |-> p, err |-> r.err]
            /\ UNCHANGED <<links, addrs, routes, ports, ebCalls, ebClean, initKind>>

\* netlink.LinkSetUp and the return (lines 79-83)
EbLinkSetUp ==
    \E p \in Procs, fail \in BOOLEAN :
        LET me == proc[p]
        IN  /\ me.pc = "setUp"
            /\ links' = IF fail THEN links ELSE LinkSetUp(links, me.br)
            /\ proc' = [proc EXCEPT ![p] =
                  IF fail
                  THEN [me EXCEPT !.pc = "done", !.err = "EPERM", !.br = 0,
                                  !.fault = TRUE]
                  ELSE [me EXCEPT !.pc = "done"]]
            /\ last' = [op |-> "LinkSetUp", proc |-> p,
                        err |-> IF fail THEN "EPERM" ELSE "nil"]
            /\ UNCHANGED <<addrs, routes, ports, ebCalls, ebClean, initKind>>

NextConcBridge ==
    \/ EbLinkAdd
    \/ EbBridgeByName
    \/ EbLinkSetUp

SpecConcBridge == InitConcBridge /\ [][NextConcBridge]_vars

AllDone == \A p \in Procs : proc[p].pc = "done"

NoneFaulted == \A p \in Procs : ~proc[p].fault

\* C15: the name never has two devices, and when all concurrent ensureBridge
\* invocations have returned and no kernel call failed for an outside reason,
\* exactly one of them created the bridge, all the others got "already
\* exists" and resolved it by name, all returned success with the same
\* device, and that one bridge is up.
C15_ConcurrentEnsureBridge ==
    /\ Cardinality({l \in links : l.ns = HostNS /\ l.name = "cni0"}) <= 1
    /\ (AllDone /\ NoneFaulted) =>
          /\ \A p \in Procs : proc[p].err = "nil"
          /\ Cardinality({p \in Procs : proc[p].path = "created"}) = 1
          /\ \A p \in Procs : proc[p].path \in {"created", "exists"}
          /\ \E l \in links :
                /\ l.ns = HostNS /\ l.name = "cni0" /\ l.kind = "bridge" /\ l.up
                /\ \A p \in Procs : proc[p].br = l.index

\* all invocations have returned without an outside failure, and the one
\* that got "already exists" finished before the creator brought the bridge up
C15_Witness ==
    /\ AllDone
    /\ NoneFaulted
    /\ \E p \in Procs : proc[p].path = "exists"
    /\ last.op = "LinkSetUp"
    /\ proc[last.proc].path = "created"

----------------------------------------------------------------------------
(* Concurrent invocations of ensureBridgeAddr (lines 17-40) on one bridge: *)
(* AddrList and AddrAdd are one atomic step each; the comparison between   *)
(* them reads only the list the invocation holds.                          *)

\* ensureBridgeAddr adding whenever no listed address equals the target
ensureBridgeAddrCompare_NoConflict(list, ipn) ==
    IF \E a \in list : IPNetString(a) = IPNetString(ipn) THEN "nil" ELSE "add"

\* the comparison of the listed addresses with the target (lines 24-33)
ensureBridgeAddrCompare(list, ipn) ==
    IF list # {}
    THEN IF \E a \in list : IPNetString(a) = IPNetString(ipn)
         THEN "nil"
         ELSE "already has an IP address different"
    ELSE "add"

\* the add and its error check (lines 35-39)
ensureBridgeAddrAdd(as, br, ipn, fail) ==
    LET add == IF fail THEN [err |-> "EPERM", addrs |-> as]
               ELSE AddrAdd(as, br, ipn)
    IN  IF add.err # "nil"
        THEN [err |-> "could not add IP address", addrs |-> as]
        ELSE [err |-> "nil", addrs |-> add.addrs]

InitConcAddr ==
    /\ links = {[index |-> VethBridge, ns |-> HostNS, name |-> "cni0",
                 kind |-> "bridge", up |-> TRUE, mtu |-> 1500, hw |-> KernelHw]}
    /\ addrs = {}
    /\ routes = {}
    /\ ports = {}
    /\ ebCalls = [n \in BrNames |-> 0]
    /\ ebClean = [n \in BrNames |-> TRUE]
    /\ initKind = [n \in BrNames |-> "bridge"]
    /\ \E t \in [Procs -> AddrTargets] :
          proc = [p \in Procs |->
                    [pc |-> "list", br |-> VethBridge, ipn |-> t[p],
                     list |-> {}, after |-> {}, err |-> "nil",
                     added |-> FALSE, fault |-> FALSE]]
    /\ last = [op |-> "init"]

\* netlink.AddrList, its error check and the comparison (lines 18-33);
\* after records the invocations that had returned by then
EbaAddrList ==
    \E p \in Procs, f \in {"none", "AddrList", "AddrListENOENT"} :
        LET me == proc[p]
            list == IF f = "AddrListENOENT" THEN {} ELSE AddrList(addrs, me.br)
            cmp == ensureBridgeAddrCompare(list, me.ipn)
            seen == [me EXCEPT !.list = list, !.fault = (f # "none"),
                               !.after = {q \in Procs : proc[q].pc = "done"}]
        IN  /\ me.pc = "list"
            /\ proc' = [proc EXCEPT ![p] =
                  IF f = "AddrList"
                  THEN [seen EXCEPT !.pc = "done", !.list = {},
                                    !.err = "could not list"]
                  ELSE IF cmp = "add"
                  THEN [seen EXCEPT !.pc = "add"]
                  ELSE [seen EXCEPT !.pc = "done", !.err = cmp]]
            /\ last' = [op |-> "AddrList", proc |-> p]
            /\ UNCHANGED <<links, addrs, routes, ports, ebCalls, ebClean, initKind>>

\* netlink.AddrAdd and the return (lines 35-39)
EbaAddrAdd ==
    \E p \in Procs, fail \in BOOLEAN :
        LET me == proc[p]
            r == ensureBridgeAddrAdd(addrs, me.br, me.ipn, fail)
        IN  /\ me.pc = "add"
            /\ addrs' = r.addrs
            /\ proc' = [proc EXCEPT ![p] =
                  [me EXCEPT !.pc = "done", !.err = r.err,
                             !.added = (r.err = "nil"),
                             !.fault = @ \/ fail]]
            /\ last' = [op |-> "AddrAdd", proc |-> p]
            /\ UNCHANGED <<links, routes, ports, ebCalls, ebClean, initKind>>

NextConcAddr ==
    \/ EbaAddrList
    \/ EbaAddrAdd

SpecConcAddr == InitConcAddr /\ [][NextConcAddr]_vars

\* C16: two invocations with different targets can both succeed and leave
\* two addresses only by overlapping: an invocation that starts after a
\* successful one with a different target has returned fails with the
\* "different address" error and adds nothing (with more than two
\* invocations it may instead find its own target, added by a third one, and
\* return success without adding), so two invocations that both added an
\* address never ran one after the other.
C16_SequentialSecondConflicts ==
    \A p \in Procs, q \in Procs :
        (/\ p # q
         /\ proc[q].pc = "done"
         /\ ~proc[q].fault
         /\ p \in proc[q].after
         /\ proc[p].added
         /\ proc[p].ipn # proc[q].ipn) =>
            /\ ~proc[q].added
            /\ proc[q].list # {}
            /\ \/ proc[q].err = "already has an IP address different"
               \/ \E r \in Procs \ {p, q} :
                     /\ proc[r].added
                     /\ proc[r].ipn = proc[q].ipn
                     /\ proc[q].err = "nil"

\* both invocations listed before either added, both returned success, and
\* the bridge holds two different addresses
C16_Witness ==
    /\ AllDone
    /\ NoneFaulted
    /\ \A p \in Procs : proc[p].err = "nil" /\ proc[p].after = {}
    /\ Cardinality(AddrList(addrs, VethBridge)) >= 2

\* C17: when concurrent invocations with one and the same target have all
\* returned and no kernel call failed for an outside reason, all of them
\* returned success and the bridge holds exactly that address.
C17_SameTargetConverges ==
    (/\ AllDone
     /\ NoneFaulted
     /\ \A p \in Procs, q \in Procs : proc[p].ipn = proc[q].ipn) =>
        /\ \A p \in Procs : proc[p].err = "nil"
        /\ \A p \in Procs : AddrList(addrs, VethBridge) = {proc[p].ipn}

----------------------------------------------------------------------------
(* The configurations calculateBridgeIP is applied to.                     *)

SubnetIPs == { <<10, 0, 0, 0>>, <<10, 0, 0, 77>>, <<10, 0, 0, 255>>,
               <<10, 0, 255, 255>>, <<10, 1, 0, 0>> }
SubnetLens == 0..33
SubnetTexts ==
    { IPString(ip) \o <<Slash, l>> : ip \in SubnetIPs, l \in SubnetLens }
    \cup { <<>>, <<Junk>>, IPString(<<10, 0, 0, 0>>) }

BrIPTexts ==
    { <<>>, <<Junk>>,
      IPString(<<10, 0, 0, 5>>), IPString(<<10, 1, 0, 5>>),
      IPString(<<10, 0, 0, 255>>), IPString(<<10, 0, 0, 256>>),
      IPString(<<10, 0, 0, 5>>) \o <<Slash, 16>>,
      IPString(<<10, 0, 0, 5>>) \o <<Slash, 33>>,
      IPString(<<10, 0, 1, 5>>) \o <<Slash, 8>> }

CalcConfs ==
    [BrName : BrNames, BrSubnet : SubnetTexts, BrIP : BrIPTexts, MTU : {1500}]

InitCalc ==
    /\ links = {}
    /\ addrs = {}
    /\ routes = {}
    /\ ebCalls = [n \in BrNames |-> 0]
    /\ ebClean = [n \in BrNames |-> TRUE]
    /\ initKind = [n \in BrNames |-> "none"]
    /\ ports = {}
    /\ proc = <<>>
    /\ \E n \in CalcConfs : last = [op |-> "input", conf |-> n]

CalculateBridgeIP ==
    /\ last.op = "input"
    /\ last' = [op |-> "calculateBridgeIP", conf |-> last.conf,
                ret |-> calculateBridgeIP(last.conf)]
    /\ UNCHANGED <<links, addrs, routes, ebCalls, ebClean, initKind, ports, proc>>

NextCalc == CalculateBridgeIP

SpecCalc == InitCalc /\ [][NextCalc]_vars

ValidationErrors ==
    { "mandatory bridgeSubnet not specified in config",
      "Invalid bridgeSubnet specified",
      "invalid bridgeIP specified in config",
      "bridgeIP is not in bridgeSubnet" }

\* C3: for a valid IPv4 BrSubnet and an empty BrIP, calculateBridgeIP returns
\* the subnet's network address plus one as a 32-bit value (what calcGatewayIP
\* gives), with the subnet's prefix length.
C3_DefaultIsNextIP ==
    (/\ last.op = "calculateBridgeIP"
     /\ last.conf.BrIP = <<>>
     /\ ParseCIDR(last.conf.BrSubnet).err = "nil")
    => LET sub == ParseCIDR(last.conf.BrSubnet).ipn
       IN  last.ret = [ipn |-> [IP |-> calcGatewayIP(sub), Len |-> sub.Len],
                       err |-> "nil"]

\* C4: with a non-empty BrIP, calculateBridgeIP succeeds exactly when BrSubnet
\* is present and parses, BrIP parses as an address or as a CIDR, and the
\* address lies in BrSubnet; it then returns that address with the subnet's
\* prefix length; otherwise it returns a validation error and no network.
C4_ExplicitBrIP ==
    (last.op = "calculateBridgeIP" /\ last.conf.BrIP # <<>>)
    => LET n == last.conf
           sub == ParseCIDR(n.BrSubnet)
           a == ParseIP(n.BrIP)
           c == ParseCIDR(n.BrIP)
           ip == IF a # NilIP THEN a ELSE c.ip
           inside == MaskIP(ip, sub.ipn.Len) = sub.ipn.IP
       IN  IF /\ n.BrSubnet # <<>>
              /\ sub.err = "nil"
              /\ (a # NilIP \/ c.err = "nil")
              /\ inside
           THEN last.ret = [ipn |-> [IP |-> ip, Len |-> sub.ipn.Len], err |-> "nil"]
           ELSE last.ret.ipn = NilNet /\ last.ret.err \in ValidationErrors

\* a CIDR-form BrIP whose own prefix differs from the subnet's was accepted
C4_Witness ==
    /\ last.op = "calculateBridgeIP"
    /\ last.ret.err = "nil"
    /\ ParseCIDR(last.conf.BrIP).err = "nil"
    /\ ParseCIDR(last.conf.BrIP).ipn.Len # last.ret.ipn.Len

====
